---- MODULE Spec2Model ----
(***************************************************************************)
(* Model of the trip-planning pipeline of agents.py, the retrieval index   *)
(* of rag_pipeline.py and the helpers of utils.py.                         *)
(*                                                                         *)
(* Python text that the code inspects character by character (lower(),     *)
(* strip(), split(","), the `in` substring test) is a sequence of          *)
(* one-character strings; text that is only carried along (names, notes,   *)
(* the model's answers, tips) is a TLA+ string.  A Python value whose type    *)
(* the code does not control (a value parsed from the language model's     *)
(* answer, the day-count override) is a record tagged with its type in     *)
(* field t and holding the value in field v.                               *)
(***************************************************************************)
EXTENDS Integers, Sequences, FiniteSets, TLC

(***************************************************************************)
(* Bounds of the model.                                                    *)
(***************************************************************************)
MaxDays == 3
MaxK == 3
MaxFrags == 2
MaxCostDays == 5
MaxRating == 50
MaxReviewLakhs == 6

(***************************************************************************)
(* Python str operations.                                                  *)
(***************************************************************************)
UpperChars == <<"A","B","C","D","E","F","G","H","I","J","K","L","M",
                "N","O","P","Q","R","S","T","U","V","W","X","Y","Z">>
LowerChars == <<"a","b","c","d","e","f","g","h","i","j","k","l","m",
                "n","o","p","q","r","s","t","u","v","w","x","y","z">>

LowerChar(c) ==
    IF \E i \in 1..Len(UpperChars) : UpperChars[i] = c
    THEN LowerChars[CHOOSE i \in 1..Len(UpperChars) : UpperChars[i] = c]
    ELSE c

\* str.lower()
Lower(s) == [i \in 1..Len(s) |-> LowerChar(s[i])]

IsSpace(c) == c = " "

\* str.strip(): leading and trailing whitespace removed
Strip(s) ==
    LET keep == {i \in 1..Len(s) : ~IsSpace(s[i])}
    IN  IF keep = {} THEN <<>>
        ELSE LET lo == CHOOSE i \in keep : \A j \in keep : i <= j
                 hi == CHOOSE i \in keep : \A j \in keep : j <= i
             IN  SubSeq(s, lo, hi)

\* Python's `sub in s` for two strings
Contains(sub, s) ==
    \E i \in 0..(Len(s) - Len(sub)) : SubSeq(s, i + 1, i + Len(sub)) = sub

\* str.split(","): the pieces between commas, empty pieces included
RECURSIVE SplitComma(_)
SplitComma(s) ==
    LET commas == {i \in 1..Len(s) : s[i] = ","}
    IN  IF commas = {} THEN <<s>>
        ELSE LET c == CHOOSE i \in commas : \A j \in commas : i <= j
             IN  <<SubSeq(s, 1, c - 1)>> \o SplitComma(SubSeq(s, c + 1, Len(s)))

\* a list comprehension's filter: the elements of seq that satisfy Test, in order
RECURSIVE SelectSeqIdx(_, _)
SelectSeqIdx(seq, idxs) ==
    IF seq = <<>> THEN <<>>
    ELSE (IF 1 \in idxs THEN <<Head(seq)>> ELSE <<>>)
         \o SelectSeqIdx(Tail(seq), {i - 1 : i \in idxs \ {1}})

\* str(d) for the small non-negative integers the model uses
Digits == <<"0","1","2","3","4","5","6","7","8","9">>
RECURSIVE IntToStr(_)
IntToStr(n) ==
    IF n < 10 THEN <<Digits[n + 1]>>
    ELSE IntToStr(n \div 10) \o <<Digits[(n % 10) + 1]>>

(***************************************************************************)
(* The text constants of the code and of the modelled inputs.              *)
(***************************************************************************)
s_low == <<"l","o","w">>
s_high == <<"h","i","g","h">>
s_medium == <<"m","e","d","i","u","m">>
s_family == <<"f","a","m","i","l","y">>
s_couple == <<"c","o","u","p","l","e">>
s_friends == <<"f","r","i","e","n","d","s">>
s_nightlife == <<"n","i","g","h","t","l","i","f","e">>
s_romantic == <<"r","o","m","a","n","t","i","c">>
s_beach == <<"b","e","a","c","h">>
s_relaxed == <<"r","e","l","a","x","e","d">>
s_packed == <<"p","a","c","k","e","d">>
s_standard == <<"s","t","a","n","d","a","r","d">>
s_Goa == <<"G","o","a">>
s_INR == <<"I","N","R">>

(***************************************************************************)
(* utils.py                                                                *)
(***************************************************************************)
\* A faulty variant: "high" tested before "low".
normalize_budget_level_highfirst(budget_level) ==
    LET bl == Lower(Strip(budget_level))
    IN  IF Contains(s_high, bl) THEN s_high
        ELSE IF Contains(s_low, bl) THEN s_low
        ELSE s_medium

\* budget_level is a string; None is modelled by the empty string, which is
\* what `budget_level or ""` makes of it.
normalize_budget_level(budget_level) ==
    LET bl == Lower(Strip(budget_level))
    IN  IF Contains(s_low, bl) THEN s_low
        ELSE IF Contains(s_high, bl) THEN s_high
        ELSE s_medium

estimate_daily_cost(budget_level) ==
    LET bl == normalize_budget_level(budget_level)
    IN  IF bl = s_low THEN 1500
        ELSE IF bl = s_high THEN 4000
        ELSE 2500

Min(a, b) == IF a <= b THEN a ELSE b
Max(a, b) == IF a >= b THEN a ELSE b

(***************************************************************************)
(* Python floats are IEEE 754 doubles: 53 significant bits, every result   *)
(* rounded to the nearest double, ties to the even one.  A double x with   *)
(* |x| < 32 that is a multiple of 2^-56 is held as the integer x * 2^56 in *)
(* two limbs, x * 2^56 = hi * 2^30 + lo with 0 <= lo < 2^30; hi < 0 for a  *)
(* negative x.  Every value score_attraction computes from a rating held   *)
(* in tenths and a review count that is a multiple of half a lakh is such  *)
(* a double.                                                               *)
(***************************************************************************)
Limb == 2^30
SignificantBits == 53

Fl(hi, lo) == [hi |-> hi, lo |-> lo]

\* the double q/4, which is exact for the small q used here
FlQuarters(q) == Fl(q * 2^24, 0)

FlNeg(x) == IF x.lo = 0 THEN Fl(0 - x.hi, 0) ELSE Fl(0 - x.hi - 1, Limb - x.lo)

\* the exact sum, before rounding
FlExactSum(x, y) ==
    IF x.lo + y.lo >= Limb THEN Fl(x.hi + y.hi + 1, x.lo + y.lo - Limb)
    ELSE Fl(x.hi + y.hi, x.lo + y.lo)

RECURSIVE BitLength(_)
BitLength(n) == IF n = 0 THEN 0 ELSE 1 + BitLength(n \div 2)

\* m >= 0 rounded to SignificantBits bits, ties to even; at most 8 bits are
\* dropped, all of them in the low limb
FlRoundMagnitude(m) ==
    LET len == IF m.hi > 0 THEN 30 + BitLength(m.hi) ELSE BitLength(m.lo)
        ulp == 2^(len - SignificantBits)
        kept == m.lo \div ulp
        rest == m.lo % ulp
        up == IF 2 * rest > ulp \/ (2 * rest = ulp /\ kept % 2 = 1) THEN 1 ELSE 0
        lo == (kept + up) * ulp
    IN  IF len <= SignificantBits THEN m
        ELSE IF lo = Limb THEN Fl(m.hi + 1, 0)
        ELSE Fl(m.hi, lo)

FlRound(x) == IF x.hi < 0 THEN FlNeg(FlRoundMagnitude(FlNeg(x))) ELSE FlRoundMagnitude(x)

\* x + y and x - y as the machine computes them
FlAdd(x, y) == FlRound(FlExactSum(x, y))
FlSub(x, y) == FlRound(FlExactSum(x, FlNeg(y)))

FlGE(x, y) == x.hi > y.hi \/ (x.hi = y.hi /\ x.lo >= y.lo)

\* rating * 0.8 for the rating r/10, r in 0..60: the double nearest to r/10
\* times the double nearest to 0.8, rounded; entry r + 1 is the product
RatingTimes08 ==
    << 
       [hi |-> 0, lo |-> 0], [hi |-> 5368709, lo |-> 128849020], [hi |-> 10737418, lo |-> 257698040],
       [hi |-> 16106127, lo |-> 386547056], [hi |-> 21474836, lo |-> 515396080], [hi |-> 26843545, lo |-> 644245096],
       [hi |-> 32212254, lo |-> 773094112], [hi |-> 37580963, lo |-> 901943128], [hi |-> 42949672, lo |-> 1030792160],
       [hi |-> 48318382, lo |-> 85899352], [hi |-> 53687091, lo |-> 214748368], [hi |-> 59055800, lo |-> 343597392],
       [hi |-> 64424509, lo |-> 472446400], [hi |-> 69793218, lo |-> 601295424], [hi |-> 75161927, lo |-> 730144432],
       [hi |-> 80530636, lo |-> 858993472], [hi |-> 85899345, lo |-> 987842496], [hi |-> 91268055, lo |-> 42949680],
       [hi |-> 96636764, lo |-> 171798704], [hi |-> 102005473, lo |-> 300647712], [hi |-> 107374182, lo |-> 429496736],
       [hi |-> 112742891, lo |-> 558345760], [hi |-> 118111600, lo |-> 687194784], [hi |-> 123480309, lo |-> 816043776],
       [hi |-> 128849018, lo |-> 944892800], [hi |-> 134217728, lo |-> 0], [hi |-> 139586437, lo |-> 128849024],
       [hi |-> 144955146, lo |-> 257698048], [hi |-> 150323855, lo |-> 386547040], [hi |-> 155692564, lo |-> 515396064],
       [hi |-> 161061273, lo |-> 644245120], [hi |-> 166429982, lo |-> 773094144], [hi |-> 171798691, lo |-> 901943168],
       [hi |-> 177167400, lo |-> 1030792160], [hi |-> 182536110, lo |-> 85899360], [hi |-> 187904819, lo |-> 214748384],
       [hi |-> 193273528, lo |-> 343597408], [hi |-> 198642237, lo |-> 472446432], [hi |-> 204010946, lo |-> 601295424],
       [hi |-> 209379655, lo |-> 730144448], [hi |-> 214748364, lo |-> 858993472], [hi |-> 220117073, lo |-> 987842464],
       [hi |-> 225485783, lo |-> 42949696], [hi |-> 230854492, lo |-> 171798688], [hi |-> 236223201, lo |-> 300647744],
       [hi |-> 241591910, lo |-> 429496736], [hi |-> 246960619, lo |-> 558345728], [hi |-> 252329328, lo |-> 687194784],
       [hi |-> 257698037, lo |-> 816043776], [hi |-> 263066746, lo |-> 944892832], [hi |-> 268435456, lo |-> 0],
       [hi |-> 273804165, lo |-> 128849024], [hi |-> 279172874, lo |-> 257698048], [hi |-> 284541583, lo |-> 386547072],
       [hi |-> 289910292, lo |-> 515396096], [hi |-> 295279001, lo |-> 644245120], [hi |-> 300647710, lo |-> 773094080],
       [hi |-> 306016419, lo |-> 901943168], [hi |-> 311385128, lo |-> 1030792128], [hi |-> 316753838, lo |-> 85899392],
       [hi |-> 322122547, lo |-> 214748416] >>

\* float(rating) * 0.8, the rating held in tenths (45 is 4.5)
FlRatingTerm(rating) == RatingTimes08[rating + 1]

\* min(float(review_count_lakhs), 5) * 0.5, the count held in tenths and a
\* multiple of 5 tenths: the double, the minimum and the half are exact
FlReviewsTerm(review_count_lakhs) == FlQuarters(Min(review_count_lakhs, 50) \div 5)

\* the loop over the interests, from interest i on
RECURSIVE AddInterests(_, _, _, _)
AddInterests(score, interests, i, tags) ==
    IF i > Len(interests) THEN score
    ELSE AddInterests(IF Contains(Strip(Lower(interests[i])), tags)
                      THEN FlAdd(score, FlQuarters(8)) ELSE score,
                      interests, i + 1, tags)

\* A faulty variant: the review count is not capped.
score_attraction_uncapped(attraction, interests, trip_type, budget_level) ==
    LET tags == Lower(attraction.tags)
        bl == normalize_budget_level(budget_level)
        tt == Lower(trip_type)
        cost_level == Lower(attraction.cost_level)
        s1 == AddInterests(FlQuarters(0), interests, 1, tags)
        s2 == IF Contains(s_family, tt) /\ Contains(s_nightlife, tags)
              THEN FlSub(s1, FlQuarters(4)) ELSE s1
        s3 == IF Contains(s_couple, tt) /\ Contains(s_romantic, tags)
              THEN FlAdd(s2, FlQuarters(4)) ELSE s2
        s4 == IF bl = s_low /\ cost_level = s_low THEN FlAdd(s3, FlQuarters(6))
              ELSE IF bl = s_high /\ cost_level = s_high THEN FlAdd(s3, FlQuarters(6))
              ELSE s3
        s5 == FlAdd(s4, FlRatingTerm(attraction.rating))
    IN  FlAdd(s5, FlQuarters(attraction.review_count_lakhs \div 5))

\* score_attraction: s1..s5 are the values of `score` after each step
score_attraction(attraction, interests, trip_type, budget_level) ==
    LET tags == Lower(attraction.tags)
        bl == normalize_budget_level(budget_level)
        tt == Lower(trip_type)
        cost_level == Lower(attraction.cost_level)
        s1 == AddInterests(FlQuarters(0), interests, 1, tags)
        s2 == IF Contains(s_family, tt) /\ Contains(s_nightlife, tags)
              THEN FlSub(s1, FlQuarters(4)) ELSE s1
        s3 == IF Contains(s_couple, tt) /\ Contains(s_romantic, tags)
              THEN FlAdd(s2, FlQuarters(4)) ELSE s2
        s4 == IF bl = s_low /\ cost_level = s_low THEN FlAdd(s3, FlQuarters(6))
              ELSE IF bl = s_high /\ cost_level = s_high THEN FlAdd(s3, FlQuarters(6))
              ELSE s3
        s5 == FlAdd(s4, FlRatingTerm(attraction.rating))
    IN  FlAdd(s5, FlReviewsTerm(attraction.review_count_lakhs))

(***************************************************************************)
(* rag_pipeline.py: the documents of the vector store.  The dataset file   *)
(* is not part of the sources; these four documents stand for it, chosen   *)
(* so that a destination can match by city, by state only, by region only  *)
(* or not at all.                                                          *)
(***************************************************************************)
s_sep == <<",", " ">>
s_West == <<"W","e","s","t">>
s_North == <<"N","o","r","t","h">>
s_South == <<"S","o","u","t","h">>
s_Agra == <<"A","g","r","a">>
s_UP == <<"U","P">>
s_Panaji == <<"P","a","n","a","j","i">>
s_Kochi == <<"K","o","c","h","i">>
s_Kerala == <<"K","e","r","a","l","a">>
s_history == <<"h","i","s","t","o","r","y">>

Doc(name, city, state, region, tags, cost_level, hours, rating, reviews) ==
    [page_content |-> name,
     metadata |-> [name |-> name, city |-> city, state |-> state, region |-> region,
                   tags |-> tags, cost_level |-> cost_level,
                   typical_duration_hours |-> hours, rating |-> rating,
                   review_count_lakhs |-> reviews]]

Docs ==
    << Doc("Baga Beach", s_Goa, s_Goa, s_West, s_beach \o s_sep \o s_nightlife,
           s_low, 3, 45, 60),
       Doc("Fort Aguada", s_Panaji, s_Goa, s_West, s_history, s_medium, 2, 40, 10),
       Doc("Taj Mahal", s_Agra, s_UP, s_North, s_history \o s_sep \o s_romantic,
           s_high, 4, 45, 60),
       Doc("Fort Kochi", s_Kochi, s_Kerala, s_South, s_beach \o s_sep \o s_history,
           s_low, 3, 40, 10) >>

\* every sequence of n distinct elements of the set S
RECURSIVE Arrangements(_, _)
Arrangements(S, n) ==
    IF n = 0 \/ S = {} THEN {<<>>}
    ELSE UNION {{<<x>> \o rest : rest \in Arrangements(S \ {x}, n - 1)} : x \in S}

\* vectorstore.similarity_search(query, k): the embedding library's ranking is
\* not modelled; it returns any Min(k, number of documents) distinct documents
\* in any order.
SimilaritySearch(k) ==
    Arrangements({Docs[i] : i \in 1..Len(Docs)}, Min(k, Len(Docs)))

\* dest_tokens: the pieces of the stripped destination between commas that
\* are not blank, each stripped and lowercased
DestTokens(destination) ==
    LET parts == SplitComma(Strip(destination))
        kept == SelectSeqIdx(parts, {j \in 1..Len(parts) : Strip(parts[j]) # <<>>})
    IN  [i \in 1..Len(kept) |-> Lower(Strip(kept[i]))]

DocMatches(doc, dest_tokens) ==
    LET city == Lower(doc.metadata.city)
        state == Lower(doc.metadata.state)
        region == Lower(doc.metadata.region)
    IN  \E i \in 1..Len(dest_tokens) :
            \/ Contains(dest_tokens[i], city)
            \/ Contains(dest_tokens[i], state)
            \/ Contains(dest_tokens[i], region)

FilteredDocs(raw_results, dest_tokens) ==
    IF dest_tokens = <<>> THEN <<>>
    ELSE SelectSeqIdx(raw_results,
             {i \in 1..Len(raw_results) : DocMatches(raw_results[i], dest_tokens)})

\* A faulty variant: the filter is kept even when it removed every result.
SearchResults_nofallback(raw_results, destination) ==
    IF DestTokens(destination) = <<>> THEN raw_results
    ELSE FilteredDocs(raw_results, DestTokens(destination))

\* A faulty variant: the filter matches on the city alone.
SearchResults_cityonly(raw_results, destination) ==
    LET toks == DestTokens(destination)
        filtered == SelectSeqIdx(raw_results,
            {i \in 1..Len(raw_results) :
                \E j \in 1..Len(toks) :
                    Contains(toks[j], Lower(raw_results[i].metadata.city))})
    IN  IF filtered # <<>> THEN filtered ELSE raw_results

\* results = filtered_docs if filtered_docs else raw_results
SearchResults(raw_results, destination) ==
    LET filtered_docs == FilteredDocs(raw_results, DestTokens(destination))
    IN  IF filtered_docs # <<>> THEN filtered_docs ELSE raw_results

\* data = dict(doc.metadata); data["summary"] = doc.page_content
DocToAttraction(doc) == [summary |-> doc.page_content] @@ doc.metadata

\* search_attractions, given what the similarity search returned
search_attractions(raw_results, destination) ==
    LET results == SearchResults(raw_results, destination)
    IN  [i \in 1..Len(results) |-> DocToAttraction(results[i])]

(***************************************************************************)
(* Python values and the operations the code applies to them.              *)
(***************************************************************************)
PyInt(n) == [t |-> "int", v |-> n]
PyStr(s) == [t |-> "str", v |-> s]
PyNone == [t |-> "none", v |-> 0]
PyList(l) == [t |-> "list", v |-> l]
PyDict(d) == [t |-> "dict", v |-> d]

\* dict.get(k, default)
Get(d, k, default) == IF k \in DOMAIN d THEN d[k] ELSE default

\* d[k] = val
Put(d, k, val) == (k :> val) @@ d

\* the truth value `if x:` takes
Truthy(x) ==
    CASE x.t = "int" -> x.v # 0
      [] x.t = "str" -> x.v # <<>>
      [] x.t = "list" -> x.v # <<>>
      [] x.t = "none" -> FALSE
      [] OTHER -> TRUE

DigitValue(c) == (CHOOSE i \in 1..Len(Digits) : Digits[i] = c) - 1
IsDigit(c) == \E i \in 1..Len(Digits) : Digits[i] = c

RECURSIVE DigitsValue(_)
DigitsValue(s) ==
    IF s = <<>> THEN 0
    ELSE 10 * DigitsValue(SubSeq(s, 1, Len(s) - 1)) + DigitValue(s[Len(s)])

\* int(x): [ok |-> FALSE] stands for the ValueError or TypeError it raises
int(x) ==
    CASE x.t = "int" -> [ok |-> TRUE, v |-> x.v]
      [] x.t = "str" ->
            LET s == Strip(x.v)
                neg == s # <<>> /\ s[1] = "-"
                body == IF s # <<>> /\ s[1] \in {"-", "+"} THEN Tail(s) ELSE s
            IN  IF body # <<>> /\ \A i \in 1..Len(body) : IsDigit(body[i])
                THEN [ok |-> TRUE,
                      v |-> IF neg THEN 0 - DigitsValue(body) ELSE DigitsValue(body)]
                ELSE [ok |-> FALSE, v |-> 0]
      [] OTHER -> [ok |-> FALSE, v |-> 0]

(***************************************************************************)
(* The language model's answers.  llm.invoke returns any text; the model   *)
(* draws it from these, and json.loads is the table of what each parses to *)
(* ([ok |-> FALSE] for a JSONDecodeError).                                 *)
(***************************************************************************)
s_three == <<"t","h","r","e","e">>

TXT_PROSE == "Sure! Here is what I found for your trip."
TXT_LIST == "[1, 2]"
TXT_NUMBER == "42"
TXT_EMPTY_OBJECT == "{}"
TXT_PREFS_GOA ==
    "{\"destination\": \"Goa\", \"days\": 2, \"budget_level\": \"low\", \"trip_type\": \"family\", \"interests\": [\"beach\", \"nightlife\"]}"
TXT_PREFS_ZERO_DAYS ==
    "{\"destination\": \"Kerala\", \"days\": 0, \"budget_level\": \"High\", \"trip_type\": \"couple\", \"interests\": [\"history\", \"romantic\"]}"
TXT_PREFS_WORD_DAYS ==
    "{\"destination\": \"Agra\", \"days\": \"three\", \"budget_level\": \"medium\", \"trip_type\": \"friends\", \"interests\": [\"history\"]}"
TXT_PLAN_ONE_DAY ==
    "{\"days\": [{\"day\": 1, \"title\": \"Goa\", \"attractions\": [{\"name\": \"Baga Beach\", \"city\": \"Goa\", \"state\": \"Goa\", \"typical_duration_hours\": 3, \"cost_level\": \"low\", \"notes\": \"morning\"}]}]}"
TXT_PLAN_FIVE ==
    "{\"days\": [{\"day\": 1, \"title\": \"Goa\", \"attractions\": [{\"name\": \"Baga Beach\"}, {\"name\": \"Fort Aguada\"}, {\"name\": \"Calangute\"}, {\"name\": \"Anjuna\"}, {\"name\": \"Dudhsagar\"}]}]}"
TXT_PLAN_NO_DAYS == "{\"plan\": \"Visit the beach\"}"
TXT_EMPTY_LIST == "[]"
TXT_SUMMARY ==
    "{\"summary\": \"A short beach trip.\", \"tips\": [\"Carry sunscreen.\"]}"

PlanEntry(name, city, state, hours, cost_level, notes) ==
    [name |-> name, city |-> city, state |-> state,
     typical_duration_hours |-> hours, cost_level |-> cost_level, notes |-> notes]

EntryBaga == PlanEntry("Baga Beach", s_Goa, s_Goa, 3, s_low, "morning")

json_loads(content) ==
    CASE content = TXT_LIST -> [ok |-> TRUE, value |-> PyList(<<1, 2>>)]
      [] content = TXT_EMPTY_LIST -> [ok |-> TRUE, value |-> PyList(<<>>)]
      [] content = TXT_NUMBER -> [ok |-> TRUE, value |-> PyInt(42)]
      [] content = TXT_EMPTY_OBJECT -> [ok |-> TRUE, value |-> PyDict(<<>>)]
      [] content = TXT_PREFS_GOA ->
            [ok |-> TRUE,
             value |-> PyDict([destination |-> s_Goa, days |-> PyInt(2),
                               budget_level |-> s_low, trip_type |-> s_family,
                               interests |-> <<s_beach, s_nightlife>>])]
      [] content = TXT_PREFS_ZERO_DAYS ->
            [ok |-> TRUE,
             value |-> PyDict([destination |-> s_Kerala, days |-> PyInt(0),
                               budget_level |-> <<"H">> \o Tail(s_high),
                               trip_type |-> s_couple,
                               interests |-> <<s_history, s_romantic>>])]
      [] content = TXT_PREFS_WORD_DAYS ->
            [ok |-> TRUE,
             value |-> PyDict([destination |-> s_Agra, days |-> PyStr(s_three),
                               budget_level |-> s_medium, trip_type |-> s_friends,
                               interests |-> <<s_history>>])]
      [] content = TXT_PLAN_ONE_DAY ->
            [ok |-> TRUE,
             value |-> PyDict([days |-> <<[day |-> 1, title |-> s_Goa,
                                          attractions |-> <<EntryBaga>>]>>])]
      [] content = TXT_PLAN_FIVE ->
            [ok |-> TRUE,
             value |-> PyDict([days |-> <<[day |-> 1, title |-> s_Goa,
                                          attractions |->
                                              <<[name |-> "Baga Beach"],
                                                [name |-> "Fort Aguada"],
                                                [name |-> "Calangute"],
                                                [name |-> "Anjuna"],
                                                [name |-> "Dudhsagar"]>>]>>])]
      [] content = TXT_PLAN_NO_DAYS ->
            [ok |-> TRUE, value |-> PyDict([plan |-> "Visit the beach"])]
      [] content = TXT_SUMMARY ->
            [ok |-> TRUE,
             value |-> PyDict([summary |-> "A short beach trip.",
                               tips |-> <<"Carry sunscreen.">>])]
      [] OTHER -> [ok |-> FALSE, value |-> PyNone]

ExtractAnswers ==
    {TXT_PROSE, TXT_LIST, TXT_NUMBER, TXT_EMPTY_OBJECT, TXT_PREFS_GOA,
     TXT_PREFS_ZERO_DAYS, TXT_PREFS_WORD_DAYS}
PlanAnswers ==
    {TXT_PROSE, TXT_PLAN_ONE_DAY, TXT_PLAN_FIVE, TXT_PLAN_NO_DAYS, TXT_EMPTY_LIST}
SummaryAnswers == {TXT_PROSE, TXT_SUMMARY, TXT_EMPTY_LIST}

(***************************************************************************)
(* agents.py                                                               *)
(***************************************************************************)
MaxResults == 15

DefaultPreferences ==
    PyDict([destination |-> s_Goa, days |-> PyInt(3), budget_level |-> s_medium,
            trip_type |-> s_friends, interests |-> <<s_beach, s_nightlife>>])

\* A faulty variant: the parse failure is answered with an empty record.
extract_preferences_nodefault(content) ==
    IF json_loads(content).ok THEN json_loads(content).value ELSE PyDict(<<>>)

\* extract_preferences, given the text the model answered
extract_preferences(content) ==
    IF json_loads(content).ok THEN json_loads(content).value ELSE DefaultPreferences

\* A faulty variant: x is put before the elements of equal score.
InsertByScore_unstable(sorted, x) ==
    LET k == Cardinality({i \in 1..Len(sorted) : ~FlGE(x.score, sorted[i].score)})
    IN  SubSeq(sorted, 1, k) \o <<x>> \o SubSeq(sorted, k + 1, Len(sorted))

\* the place list.sort(key=score, reverse=True) gives x among the already
\* sorted elements: behind every element whose score is not smaller
InsertByScore(sorted, x) ==
    LET k == Cardinality({i \in 1..Len(sorted) : FlGE(sorted[i].score, x.score)})
    IN  SubSeq(sorted, 1, k) \o <<x>> \o SubSeq(sorted, k + 1, Len(sorted))

RECURSIVE SortByScoreDesc(_)
SortByScoreDesc(seq) ==
    IF seq = <<>> THEN <<>>
    ELSE InsertByScore(SortByScoreDesc(SubSeq(seq, 1, Len(seq) - 1)), seq[Len(seq)])

\* retrieve_attractions, given what the similarity search returned;
\* preferences is the dict itself, and its interests are a list of strings
\* in every answer the model draws
retrieve_attractions(preferences, raw) ==
    LET destination == Get(preferences, "destination", <<>>)
        interests == Get(preferences, "interests", <<>>)
        found == search_attractions(raw, destination)
        scored == [i \in 1..Len(found) |->
                     [score |-> score_attraction(found[i], interests,
                                    Get(preferences, "trip_type", <<>>),
                                    Get(preferences, "budget_level", s_medium))]
                     @@ found[i]]
    IN  SortByScoreDesc(scored)

\* int(preferences.get("days", 3))
DaysOf(preferences) == int(Get(preferences, "days", PyInt(3)))

\* days = max(int(preferences.get("days", 3)), 1)
EffectiveDays(preferences) == Max(DaysOf(preferences).v, 1)

\* the attractions-per-day target of a style
PerDay(itinerary_style) ==
    LET style == Lower(IF itinerary_style = <<>> THEN s_standard ELSE itinerary_style)
    IN  IF Contains(s_relaxed, style) THEN 2
        ELSE IF Contains(s_packed, style) THEN 4
        ELSE 3

\* Python's seq[a:b] for 0 <= a <= b
Slice(seq, a, b) == SubSeq(seq, Min(a, Len(seq)) + 1, Min(b, Len(seq)))

\* A faulty variant: the candidate list is handed on whole.
TopAttractions_untruncated(attractions, days, itinerary_style) == attractions

\* top_attractions = attractions[: max(days * per_day, days * 2)]
TopAttractions(attractions, days, itinerary_style) ==
    Slice(attractions, 0, Max(days * PerDay(itinerary_style), days * 2))

FallbackEntry(a) ==
    PlanEntry(a.name, a.city, a.state, a.typical_duration_hours, a.cost_level, "")

DayTitle(d, destination) ==
    <<"D","a","y"," ">> \o IntToStr(d) \o <<" ","i","n"," ">> \o destination

\* the loop `for d in range(1, days + 1)` from day d on, idx being the loop's index
RECURSIVE FallbackLoop(_, _, _, _, _, _)
FallbackLoop(top, per_day, d, days, idx, destination) ==
    IF d > days THEN <<>>
    ELSE LET day_atts == Slice(top, idx, idx + per_day)
         IN  <<[day |-> d, title |-> DayTitle(d, destination),
                attractions |-> [i \in 1..Len(day_atts) |-> FallbackEntry(day_atts[i])]]>>
             \o FallbackLoop(top, per_day, d + 1, days, idx + per_day, destination)

\* A faulty variant: the chunk size is rounded up.
FallbackItinerary_roundedup(top, days, destination) ==
    PyDict([days |-> FallbackLoop(top, Max(1, (Len(top) + days - 1) \div days), 1, days,
                                  0, destination)])

\* the itinerary built when the model's answer does not parse
FallbackItinerary(top, days, destination) ==
    PyDict([days |-> FallbackLoop(top, Max(1, Len(top) \div days), 1, days, 0,
                                  destination)])

\* plan_itinerary from the model's answer on, int(days) having succeeded
plan_itinerary(preferences, attractions, itinerary_style, content) ==
    LET days == EffectiveDays(preferences)
        top_attractions == TopAttractions(attractions, days, itinerary_style)
    IN  IF json_loads(content).ok THEN json_loads(content).value
        ELSE FallbackItinerary(top_attractions, days,
                               Get(preferences, "destination", <<>>))

\* A faulty variant: the total is charged for one day more.
estimate_cost_extraday(preferences) ==
    LET budget_level == Get(preferences, "budget_level", s_medium)
    IN  [budget_level |-> budget_level,
         estimated_per_day |-> estimate_daily_cost(budget_level),
         estimated_total |->
             estimate_daily_cost(budget_level) * (EffectiveDays(preferences) + 1),
         currency |-> s_INR]

\* A faulty variant: the day count is not raised to 1.
estimate_cost_unclamped(preferences) ==
    LET budget_level == Get(preferences, "budget_level", s_medium)
    IN  [budget_level |-> budget_level,
         estimated_per_day |-> estimate_daily_cost(budget_level),
         estimated_total |->
             estimate_daily_cost(budget_level) * DaysOf(preferences).v,
         currency |-> s_INR]

\* estimate_cost, int(days) having succeeded; the itinerary argument is not read
estimate_cost(preferences) ==
    LET days == EffectiveDays(preferences)
        budget_level == Get(preferences, "budget_level", s_medium)
        per_day == estimate_daily_cost(budget_level)
    IN  [budget_level |-> budget_level,
         estimated_per_day |-> per_day,
         estimated_total |-> per_day * days,
         currency |-> s_INR]

DefaultSummary ==
    PyDict([summary |-> "This is a multi-day trip plan generated based on your preferences.",
            tips |-> <<"Carry basic medicines and a water bottle.",
                       "Check local weather before packing.">>])

\* generate_summary_and_tips, given the text the model answered
generate_summary_and_tips(content) ==
    IF json_loads(content).ok THEN json_loads(content).value ELSE DefaultSummary

(***************************************************************************)
(* The state: one run of run_planning_pipeline (agents.py, the second      *)
(* definition, which is the one the module exports), from the import of    *)
(* agents.py on.                                                           *)
(***************************************************************************)
VARIABLES
    pc,                   \* the statement the run is at
    api_key,              \* whether OPENAI_API_KEY is set
    rag,                  \* the module's TourismRAGPipeline: "none" or "built"
    explicit_destination, \* the arguments of run_planning_pipeline
    explicit_days,
    itinerary_style,
    preferences,          \* the locals of run_planning_pipeline
    raw_results,          \* what the similarity search returned
    attractions,
    itinerary,
    cost_info,
    summary_info,
    answers,              \* the text the model answered at each call site
    raised,               \* the stage an exception left the run from
    llm_calls,            \* llm.invoke calls so far
    searches,             \* similarity searches so far
    call,                 \* a direct call of one function: its arguments
    ret                   \* and what it returned

pipeline_vars ==
    <<api_key, rag, explicit_destination, explicit_days, itinerary_style, preferences,
      raw_results, attractions, itinerary, cost_info, summary_info, answers, raised,
      llm_calls, searches>>
vars == <<pc, pipeline_vars, call, ret>>

NoAnswer == ""
NoCall == [fn |-> "none"]

s_goa == <<"g","o","a">>
s_Ooty == <<"O","o","t","y">>
s_abc == <<"a","b","c">>
s_Relaxed == <<"R","e","l","a","x","e","d">>
s_Standard == <<"S","t","a","n","d","a","r","d">>

ExplicitDestinations == {<<>>, s_goa, s_Ooty}
ExplicitDays ==
    {PyInt(n) : n \in (0 - 1)..MaxDays} \cup {PyStr(s_abc), PyStr(<<"2">>), PyNone}
ItineraryStyles == {<<>>, s_Standard, s_Relaxed, s_packed}

PipelineIdle ==
    /\ preferences = PyNone
    /\ raw_results = <<>>
    /\ attractions = <<>>
    /\ itinerary = PyNone
    /\ cost_info = PyNone
    /\ summary_info = PyNone
    /\ answers = [extract |-> NoAnswer, plan |-> NoAnswer, summary |-> NoAnswer]
    /\ raised = ""
    /\ llm_calls = 0
    /\ searches = 0

Init ==
    /\ pc = "import"
    /\ api_key \in BOOLEAN
    /\ rag = "none"
    /\ explicit_destination \in ExplicitDestinations
    /\ explicit_days \in ExplicitDays
    /\ itinerary_style \in ItineraryStyles
    /\ PipelineIdle
    /\ call = NoCall
    /\ ret = PyNone

\* A faulty variant: the key is not looked at.
get_llm_unchecked(key_set) == [raises |-> FALSE]

\* config.get_llm: raises ValueError when OPENAI_API_KEY is not set or empty
get_llm(key_set) == [raises |-> ~key_set]

\* the import of agents.py: llm = get_llm() at line 8, and then
\* rag = TourismRAGPipeline() at line 9, which builds the index; when
\* get_llm raises, the import fails and nothing of the module can be called
Import ==
    /\ pc = "import"
    /\ IF get_llm(api_key).raises
       THEN /\ pc' = "fatal"
            /\ rag' = rag
       ELSE /\ pc' = "extract"
            /\ rag' = "built"
    /\ UNCHANGED <<api_key, explicit_destination, explicit_days, itinerary_style,
                   preferences, raw_results, attractions, itinerary, cost_info,
                   summary_info, answers, raised, llm_calls, searches, call, ret>>

\* preferences = extract_preferences(user_input)
Extract ==
    /\ pc = "extract"
    /\ \E content \in ExtractAnswers :
        /\ preferences' = extract_preferences(content)
        /\ answers' = [answers EXCEPT !.extract = content]
    /\ llm_calls' = llm_calls + 1
    /\ pc' = "override"
    /\ UNCHANGED <<api_key, rag, explicit_destination, explicit_days, itinerary_style,
                   raw_results, attractions, itinerary, cost_info, summary_info,
                   raised, searches, call, ret>>

\* if explicit_days: try: preferences["days"] = int(explicit_days)
\*                   except Exception: pass
OverrideDays(prefs) ==
    IF Truthy(explicit_days) /\ int(explicit_days).ok
    THEN Put(prefs, "days", PyInt(int(explicit_days).v))
    ELSE prefs

\* if explicit_destination: preferences["destination"] = explicit_destination
OverrideDestination(prefs) ==
    IF explicit_destination # <<>>
    THEN Put(prefs, "destination", explicit_destination)
    ELSE prefs

\* The override block, lines 275-282.  An item assignment to a value that is
\* no dict raises TypeError, at line 282 at the latest.
Override ==
    /\ pc = "override"
    /\ IF preferences.t = "dict"
       THEN /\ preferences' =
                  PyDict(Put(OverrideDays(OverrideDestination(preferences.v)),
                             "itinerary_style", itinerary_style))
            /\ pc' = "retrieve"
            /\ raised' = raised
       ELSE /\ pc' = "raised"
            /\ raised' = "override"
            /\ preferences' = preferences
    /\ UNCHANGED <<api_key, rag, explicit_destination, explicit_days, itinerary_style,
                   raw_results, attractions, itinerary, cost_info, summary_info,
                   answers, llm_calls, searches, call, ret>>

\* attractions = retrieve_attractions(preferences)
Retrieve ==
    /\ pc = "retrieve"
    /\ \E raw \in SimilaritySearch(MaxResults) :
        /\ raw_results' = raw
        /\ attractions' = retrieve_attractions(preferences.v, raw)
    /\ searches' = searches + 1
    /\ pc' = "plan"
    /\ UNCHANGED <<api_key, rag, explicit_destination, explicit_days, itinerary_style,
                   preferences, itinerary, cost_info, summary_info, answers, raised,
                   llm_calls, call, ret>>

\* itinerary = plan_itinerary(preferences, attractions, itinerary_style):
\* int(days) at line 111 raises before the model is called
Plan ==
    /\ pc = "plan"
    /\ IF DaysOf(preferences.v).ok
       THEN /\ \E content \in PlanAnswers :
                /\ itinerary' = plan_itinerary(preferences.v, attractions,
                                               itinerary_style, content)
                /\ answers' = [answers EXCEPT !.plan = content]
            /\ llm_calls' = llm_calls + 1
            /\ pc' = "cost"
            /\ raised' = raised
       ELSE /\ pc' = "raised"
            /\ raised' = "plan_itinerary"
            /\ UNCHANGED <<itinerary, answers, llm_calls>>
    /\ UNCHANGED <<api_key, rag, explicit_destination, explicit_days, itinerary_style,
                   preferences, raw_results, attractions, cost_info, summary_info,
                   searches, call, ret>>

\* cost_info = estimate_cost(preferences, itinerary)
Cost ==
    /\ pc = "cost"
    /\ IF DaysOf(preferences.v).ok
       THEN /\ cost_info' = PyDict(estimate_cost(preferences.v))
            /\ pc' = "summary"
            /\ raised' = raised
       ELSE /\ pc' = "raised"
            /\ raised' = "estimate_cost"
            /\ cost_info' = cost_info
    /\ UNCHANGED <<api_key, rag, explicit_destination, explicit_days, itinerary_style,
                   preferences, raw_results, attractions, itinerary, summary_info,
                   answers, llm_calls, searches, call, ret>>

\* summary_info = generate_summary_and_tips(...); return the bundle
Summarize ==
    /\ pc = "summary"
    /\ \E content \in SummaryAnswers :
        /\ summary_info' = generate_summary_and_tips(content)
        /\ answers' = [answers EXCEPT !.summary = content]
    /\ llm_calls' = llm_calls + 1
    /\ pc' = "done"
    /\ UNCHANGED <<api_key, rag, explicit_destination, explicit_days, itinerary_style,
                   preferences, raw_results, attractions, itinerary, cost_info,
                   raised, searches, call, ret>>

Next == Import \/ Extract \/ Override \/ Retrieve \/ Plan \/ Cost \/ Summarize

Spec == Init /\ [][Next]_vars

(***************************************************************************)
(* Direct calls of search_attractions: the destination, k and the          *)
(* similarity search's answer are drawn at the start, the call applies     *)
(* the function.                                                           *)
(***************************************************************************)
s_GOA == <<"G","O","A">>
s_kerala == <<"k","e","r","a","l","a">>
s_north == <<"n","o","r","t","h">>

SearchDestinations ==
    {<<>>, <<" ">>, <<" ", ",", " ", ",">>, s_Goa, s_GOA, s_Agra, s_kerala, s_north,
     s_Ooty, <<"o">>, <<" ">> \o s_goa \o <<" ", ",">> \o s_Agra \o <<" ">>,
     s_Ooty \o <<",">> \o s_Kochi}

InitSearch ==
    /\ pc = "call"
    /\ \E destination \in SearchDestinations, k \in 0..MaxK :
        \E raw \in SimilaritySearch(k) :
            call = [fn |-> "search_attractions", destination |-> destination,
                    k |-> k, raw |-> raw]
    /\ ret = PyNone
    /\ api_key = TRUE
    /\ rag = "built"
    /\ explicit_destination = <<>>
    /\ explicit_days = PyNone
    /\ itinerary_style = <<>>
    /\ PipelineIdle

CallSearch ==
    /\ pc = "call"
    /\ call.fn = "search_attractions"
    /\ ret' = PyList(search_attractions(call.raw, call.destination))
    /\ pc' = "returned"
    /\ UNCHANGED <<pipeline_vars, call>>

NextSearch == CallSearch

SpecSearch == InitSearch /\ [][NextSearch]_vars

(***************************************************************************)
(* Direct calls of the helpers of utils.py and of estimate_cost.  A budget *)
(* string is made of up to MaxFrags of the fragments below.                *)
(***************************************************************************)
BudgetFragments ==
    {s_low, s_high, <<"L","O","W">>, <<"H","i","g","h">>, <<" ">>, <<"x">>,
     <<"l","o">>, s_medium}

RECURSIVE Concatenations(_)
Concatenations(n) ==
    IF n = 0 THEN {<<>>}
    ELSE Concatenations(n - 1)
         \cup {f \o rest : f \in BudgetFragments, rest \in Concatenations(n - 1)}

BudgetStrings == Concatenations(MaxFrags)

InitUtils ==
    /\ pc = "call"
    /\ \/ \E b \in BudgetStrings :
            call = [fn |-> "normalize_budget_level", budget_level |-> b]
       \/ \E b \in BudgetStrings, d \in (0 - 1)..MaxCostDays :
            call = [fn |-> "estimate_cost",
                    preferences |-> [days |-> PyInt(d), budget_level |-> b]]
    /\ ret = PyNone
    /\ api_key = TRUE
    /\ rag = "built"
    /\ explicit_destination = <<>>
    /\ explicit_days = PyNone
    /\ itinerary_style = <<>>
    /\ PipelineIdle

CallNormalize ==
    /\ pc = "call"
    /\ call.fn = "normalize_budget_level"
    /\ ret' = PyStr(normalize_budget_level(call.budget_level))
    /\ pc' = "returned"
    /\ UNCHANGED <<pipeline_vars, call>>

CallEstimateCost ==
    /\ pc = "call"
    /\ call.fn = "estimate_cost"
    /\ ret' = PyDict(estimate_cost(call.preferences))
    /\ pc' = "returned"
    /\ UNCHANGED <<pipeline_vars, call>>

NextUtils == CallNormalize \/ CallEstimateCost

SpecUtils == InitUtils /\ [][NextUtils]_vars

(***************************************************************************)
(* Direct calls of score_attraction, over a grid: ratings of 0 to          *)
(* MaxRating tenths and review counts of 0 to MaxReviewLakhs lakhs, which  *)
(* is below, at and above the cap of 5.                                    *)
(***************************************************************************)
PyFloat(x) == [t |-> "float", v |-> x]

s_zoo == <<"z","o","o">>
s_Beach_padded == <<" ","B","e","a","c","h"," ">>

ScoreTags == {s_beach \o s_sep \o s_nightlife,
              <<"B","e","a","c","h">> \o s_sep \o <<"R","o","m","a","n","t","i","c">>}
ScoreWords == {s_Beach_padded, s_zoo}

\* no interest, one that counts once trimmed, one that does not count, and
\* the same interest twice
InterestLists ==
    {<<>>, <<s_Beach_padded>>, <<s_zoo>>, <<s_Beach_padded, s_Beach_padded>>}

InitScore ==
    /\ pc = "call"
    /\ \E tags \in ScoreTags, cost_level \in {s_low, s_medium, s_high},
          rating \in 0..MaxRating, lakhs \in 0..MaxReviewLakhs,
          interests \in InterestLists,
          trip_type \in {s_family, s_couple}, budget_level \in {s_low, s_medium, s_high} :
            call = [fn |-> "score_attraction",
                    attraction |-> [tags |-> tags, cost_level |-> cost_level,
                                    rating |-> rating,
                                    review_count_lakhs |-> 10 * lakhs],
                    interests |-> interests, trip_type |-> trip_type,
                    budget_level |-> budget_level]
    /\ ret = PyNone
    /\ api_key = TRUE
    /\ rag = "built"
    /\ explicit_destination = <<>>
    /\ explicit_days = PyNone
    /\ itinerary_style = <<>>
    /\ PipelineIdle

CallScore ==
    /\ pc = "call"
    /\ call.fn = "score_attraction"
    /\ ret' = PyFloat(score_attraction(call.attraction, call.interests,
                                       call.trip_type, call.budget_level))
    /\ pc' = "returned"
    /\ UNCHANGED <<pipeline_vars, call>>

NextScore == CallScore

SpecScore == InitScore /\ [][NextScore]_vars

(***************************************************************************)
(* What the claims are stated with.                                        *)
(***************************************************************************)
Unparseable(content) == content # NoAnswer /\ ~json_loads(content).ok
AfterPlan == pc \in {"cost", "summary", "done"}

\* the effective day count and the truncated candidate list of the run
RunDays == EffectiveDays(preferences.v)
RunCap == Max(RunDays * PerDay(itinerary_style), RunDays * 2)
RunTop == SubSeq(attractions, 1, Min(Len(attractions), RunCap))

\* an object holding a "days" list
HasDayList(it) == it.t = "dict" /\ "days" \in DOMAIN it.v

\* the attractions of an itinerary's days, read in day order
RECURSIVE FlattenDays(_)
FlattenDays(days) ==
    IF days = <<>> THEN <<>> ELSE Head(days).attractions \o FlattenDays(Tail(days))

\* the chunked itinerary in closed form: day d of n holds the elements of T at
\* positions (d-1)c+1 .. dc that exist, c = max(1, floor(len(T)/n))
ChunkedItinerary(T, n, destination) ==
    LET c == Max(1, Len(T) \div n)
    IN  [t |-> "dict",
         v |-> [days |->
            [d \in 1..n |->
                [day |-> d,
                 title |-> DayTitle(d, destination),
                 attractions |->
                    [i \in 1..Max(0, Min(d * c, Len(T)) - (d - 1) * c) |->
                        [name |-> T[(d - 1) * c + i].name,
                         city |-> T[(d - 1) * c + i].city,
                         state |-> T[(d - 1) * c + i].state,
                         typical_duration_hours |->
                             T[(d - 1) * c + i].typical_duration_hours,
                         cost_level |-> T[(d - 1) * c + i].cost_level,
                         notes |-> ""]]]]]]

(***************************************************************************)
(* C1: at each of the three model call sites, an answer that is not        *)
(* parseable as JSON makes the stage return its documented fallback (the   *)
(* fixed default preferences, the chunked itinerary, the fixed summary     *)
(* and tips), and no exception leaves the stage.                           *)
(***************************************************************************)
C1_FallbackOnUnparseable ==
    /\ Unparseable(answers.extract) =>
        /\ raised # "extract_preferences"
        /\ pc # "extract"
        /\ pc = "override" =>
            preferences =
                [t |-> "dict",
                 v |-> [destination |-> <<"G","o","a">>,
                        days |-> [t |-> "int", v |-> 3],
                        budget_level |-> <<"m","e","d","i","u","m">>,
                        trip_type |-> <<"f","r","i","e","n","d","s">>,
                        interests |-> << <<"b","e","a","c","h">>,
                                         <<"n","i","g","h","t","l","i","f","e">> >>]]
    /\ Unparseable(answers.plan) =>
        /\ raised # "plan_itinerary"
        /\ AfterPlan
        /\ itinerary = ChunkedItinerary(RunTop, RunDays,
                                        Get(preferences.v, "destination", <<>>))
    /\ Unparseable(answers.summary) =>
        /\ raised = ""
        /\ pc = "done"
        /\ summary_info =
            [t |-> "dict",
             v |-> [summary |-> "This is a multi-day trip plan generated based on your preferences.",
                    tips |-> <<"Carry basic medicines and a water bottle.",
                               "Check local weather before packing.">>]]

\* a run in which all three answers were unparseable has returned its bundle
C1_Witness ==
    /\ pc = "done"
    /\ Unparseable(answers.extract)
    /\ Unparseable(answers.plan)
    /\ Unparseable(answers.summary)

(***************************************************************************)
(* C2: extract_preferences returns the fixed default record whenever the   *)
(* model's text does not parse to an object with the fields destination,   *)
(* days (an integer), budget_level, trip_type, interests; valid JSON of    *)
(* another shape included.                                                 *)
(***************************************************************************)
WellShapedPreferences(val) ==
    /\ val.t = "dict"
    /\ DOMAIN val.v =
        {"destination", "days", "budget_level", "trip_type", "interests"}
    /\ val.v.days.t = "int"

C2_DefaultOnWrongShape ==
    (pc = "override"
     /\ ~(json_loads(answers.extract).ok
          /\ WellShapedPreferences(json_loads(answers.extract).value)))
    => preferences = DefaultPreferences

(***************************************************************************)
(* C3: plan_itinerary returns the chunked fallback itinerary whenever the  *)
(* model's output does not parse to an object holding a "days" list,       *)
(* valid JSON of another shape included.                                   *)
(***************************************************************************)
C3_FallbackOnWrongShape ==
    (AfterPlan
     /\ ~(json_loads(answers.plan).ok /\ HasDayList(json_loads(answers.plan).value)))
    => itinerary = ChunkedItinerary(RunTop, RunDays,
                                    Get(preferences.v, "destination", <<>>))

(***************************************************************************)
(* C4: in every returned bundle the itinerary holds as many Day entries    *)
(* as the days value of the bundle's preferences, whether the model's      *)
(* itinerary was accepted or the fallback was built.  Stated of the        *)
(* bundles whose preferences hold a positive integer days and whose        *)
(* itinerary holds a day list.                                             *)
(***************************************************************************)
C4_DayCountMatches ==
    (/\ pc = "done"
     /\ "days" \in DOMAIN preferences.v
     /\ preferences.v.days.t = "int"
     /\ preferences.v.days.v >= 1
     /\ HasDayList(itinerary))
    => Len(itinerary.v.days) = preferences.v.days.v

(***************************************************************************)
(* C5: the planner fallback partitions the truncated candidate list: read  *)
(* in day order, the fallback's days hold every attraction of the          *)
(* truncated list exactly once, in ranked order.                           *)
(***************************************************************************)
C5_FallbackPartitions ==
    (AfterPlan /\ Unparseable(answers.plan))
    => LET held == FlattenDays(itinerary.v.days)
       IN  /\ Len(held) = Len(RunTop)
           /\ \A i \in 1..Len(held) : held[i].name = RunTop[i].name

(***************************************************************************)
(* C6: the itinerary plan_itinerary returns never holds more attractions   *)
(* than max(days * per_day, days * 2), per_day being 2 for a style         *)
(* containing "relaxed", 4 for "packed", 3 otherwise.                      *)
(***************************************************************************)
ClaimedPerDay ==
    IF Contains(s_relaxed, Lower(itinerary_style)) THEN 2
    ELSE IF Contains(s_packed, Lower(itinerary_style)) THEN 4
    ELSE 3
ClaimedCap == Max(RunDays * ClaimedPerDay, RunDays * 2)

C6_Original ==
    (AfterPlan /\ HasDayList(itinerary))
    => Len(FlattenDays(itinerary.v.days)) <= ClaimedCap

\* C6 as amended: the bound holds of the itinerary the fallback builds (an
\* itinerary accepted from the model is not bounded).
C6_FallbackWithinCap ==
    (AfterPlan /\ Unparseable(answers.plan))
    => Len(FlattenDays(itinerary.v.days)) <= ClaimedCap

\* the fallback was built from a ranked list longer than the bound
C6_Witness ==
    /\ AfterPlan
    /\ Unparseable(answers.plan)
    /\ Len(attractions) > ClaimedCap
    /\ Len(FlattenDays(itinerary.v.days)) = ClaimedCap

(***************************************************************************)
(* What the claims about search_attractions are stated with.               *)
(***************************************************************************)
Searched == pc = "returned" /\ call.fn = "search_attractions"

\* raw result i has a city, state or region containing some token,
\* case-insensitively
RawMatches(i) ==
    \E j \in 1..Len(DestTokens(call.destination)) :
        \/ Contains(DestTokens(call.destination)[j], Lower(call.raw[i].metadata.city))
        \/ Contains(DestTokens(call.destination)[j], Lower(call.raw[i].metadata.state))
        \/ Contains(DestTokens(call.destination)[j], Lower(call.raw[i].metadata.region))

MatchingIdx == {i \in 1..Len(call.raw) : RawMatches(i)}

\* the k-th smallest element of a set of numbers
Nth(S, k) == CHOOSE i \in S : Cardinality({j \in S : j < i}) = k - 1

\* a retrieved record as search_attractions returns it
Returned(doc) ==
    [name |-> doc.metadata.name, city |-> doc.metadata.city,
     state |-> doc.metadata.state, region |-> doc.metadata.region,
     tags |-> doc.metadata.tags, cost_level |-> doc.metadata.cost_level,
     typical_duration_hours |-> doc.metadata.typical_duration_hours,
     rating |-> doc.metadata.rating,
     review_count_lakhs |-> doc.metadata.review_count_lakhs,
     summary |-> doc.page_content]

(***************************************************************************)
(* C7: search_attractions filters strictly by location: when the           *)
(* destination has a location token and some retrieved record has a city,  *)
(* state or region containing a token (case-insensitively), the result is  *)
(* exactly the matching retrieved records in similarity order; a           *)
(* retrieved record whose city equals a token is in the result.            *)
(***************************************************************************)
C7_StrictLocationFilter ==
    (Searched /\ DestTokens(call.destination) # <<>> /\ MatchingIdx # {})
    => /\ Len(ret.v) = Cardinality(MatchingIdx)
       /\ \A n \in 1..Len(ret.v) : ret.v[n] = Returned(call.raw[Nth(MatchingIdx, n)])
       /\ \A i \in 1..Len(call.raw) :
            (\E j \in 1..Len(DestTokens(call.destination)) :
                DestTokens(call.destination)[j] = Lower(call.raw[i].metadata.city))
            => \E n \in 1..Len(ret.v) : ret.v[n] = Returned(call.raw[i])

\* the filter removed a retrieved record and kept one that matches by its
\* state alone, behind one whose city is the token
C7_Witness ==
    /\ Searched
    /\ call.destination = s_GOA
    /\ Len(call.raw) = 3
    /\ Len(ret.v) = 2
    /\ ret.v[1].city = s_Goa
    /\ ret.v[2].city = s_Panaji

(***************************************************************************)
(* C8: search_attractions falls back to the unfiltered results: with no    *)
(* location token (an empty or blank destination, or commas only), or      *)
(* with no retrieved record matching a token, the result is exactly the    *)
(* similarity results in similarity order; so the result is empty only     *)
(* when the similarity search returned nothing.                            *)
(***************************************************************************)
C8_FallbackToUnfiltered ==
    Searched
    => /\ (DestTokens(call.destination) = <<>> \/ MatchingIdx = {})
            => /\ Len(ret.v) = Len(call.raw)
               /\ \A n \in 1..Len(ret.v) : ret.v[n] = Returned(call.raw[n])
       /\ ret.v = <<>> => call.raw = <<>>

\* tokens that match no retrieved record: the unfiltered results came back
C8_Witness ==
    /\ Searched
    /\ call.destination = s_Ooty
    /\ Len(call.raw) = 2
    /\ Len(ret.v) = 2

(***************************************************************************)
(* C9: for days d >= 1 and every budget string b, estimate_cost returns    *)
(* estimated_per_day = estimate_daily_cost(b), which is 1500 when b        *)
(* normalizes to low, 4000 when high and 2500 when medium,                 *)
(* estimated_total = estimated_per_day * d, and the currency "INR".        *)
(***************************************************************************)
C9_TotalIsPerDayTimesDays ==
    (pc = "returned" /\ call.fn = "estimate_cost" /\ call.preferences.days.v >= 1)
    => LET b == call.preferences.budget_level
           d == call.preferences.days.v
       IN  /\ ret.v.estimated_per_day = estimate_daily_cost(b)
           /\ ret.v.estimated_per_day =
                CASE normalize_budget_level(b) = <<"l","o","w">> -> 1500
                  [] normalize_budget_level(b) = <<"h","i","g","h">> -> 4000
                  [] normalize_budget_level(b) = <<"m","e","d","i","u","m">> -> 2500
           /\ ret.v.estimated_total = ret.v.estimated_per_day * d
           /\ ret.v.currency = <<"I","N","R">>

\* the spec's example: five days on a low budget cost 1500 a day, 7500 in all
C9_Witness ==
    /\ pc = "returned"
    /\ call.fn = "estimate_cost"
    /\ call.preferences.days.v = 5
    /\ call.preferences.budget_level = s_low
    /\ ret.v.estimated_per_day = 1500
    /\ ret.v.estimated_total = 7500

(***************************************************************************)
(* C10: normalize_budget_level is total and idempotent: every string       *)
(* (the empty one included) maps to low, medium or high; any string        *)
(* containing "low" maps to low, any string containing "high" maps to      *)
(* high, everything else to medium; the result maps to itself.  The        *)
(* scoring function and the cost estimator use this normalization.         *)
(* Containment is read case-insensitively.                                 *)
(***************************************************************************)
Normalized == pc = "returned" /\ call.fn = "normalize_budget_level"
HasLow(b) == Contains(<<"l","o","w">>, Lower(b))
HasHigh(b) == Contains(<<"h","i","g","h">>, Lower(b))

C10_Original ==
    Normalized
    => /\ ret.v \in {s_low, s_medium, s_high}
       /\ HasLow(call.budget_level) => ret.v = s_low
       /\ HasHigh(call.budget_level) => ret.v = s_high
       /\ (~HasLow(call.budget_level) /\ ~HasHigh(call.budget_level)) => ret.v = s_medium
       /\ normalize_budget_level(ret.v) = ret.v

\* C10 as amended: a string containing "high" maps to high only when it does
\* not contain "low"; "low" wins when both occur.
C10_LowBeforeHigh ==
    Normalized
    => /\ ret.v \in {s_low, s_medium, s_high}
       /\ HasLow(call.budget_level) => ret.v = s_low
       /\ (HasHigh(call.budget_level) /\ ~HasLow(call.budget_level)) => ret.v = s_high
       /\ (~HasLow(call.budget_level) /\ ~HasHigh(call.budget_level)) => ret.v = s_medium
       /\ normalize_budget_level(ret.v) = ret.v
       /\ estimate_daily_cost(call.budget_level) = estimate_daily_cost(ret.v)
       /\ \A i \in 1..Len(Docs) :
            score_attraction(Docs[i].metadata, <<>>, <<>>, call.budget_level)
                = score_attraction(Docs[i].metadata, <<>>, <<>>, ret.v)

\* a string containing both words was normalized
C10_Witness ==
    /\ Normalized
    /\ HasLow(call.budget_level)
    /\ HasHigh(call.budget_level)
    /\ ret.v = s_low

(***************************************************************************)
(* C11: the score of an attraction                                         *)
(***************************************************************************)
ScoreReturned == pc = "returned" /\ call.fn = "score_attraction"

\* the score of the call's attraction with other interests, or another review count
ScoreWith(interests) ==
    score_attraction(call.attraction, interests, call.trip_type, call.budget_level)
ScoreWithReviews(review_count_lakhs) ==
    score_attraction([call.attraction EXCEPT !.review_count_lakhs = review_count_lakhs],
                     call.interests, call.trip_type, call.budget_level)

\* the interests that count: substrings of the tags, letter case aside, as
\* they stand or once trimmed
CountAsTheyStand(interests, tags) ==
    Cardinality({i \in 1..Len(interests) : Contains(Lower(interests[i]), Lower(tags))})
CountTrimmed(interests, tags) ==
    Cardinality({i \in 1..Len(interests) :
                    Contains(Strip(Lower(interests[i])), Lower(tags))})

\* the sum of the claim in quarters, the rating and review terms aside
ClaimedBonuses(matching) ==
    8 * matching
    - (IF Contains(s_family, Lower(call.trip_type))
          /\ Contains(s_nightlife, Lower(call.attraction.tags)) THEN 4 ELSE 0)
    + (IF Contains(s_couple, Lower(call.trip_type))
          /\ Contains(s_romantic, Lower(call.attraction.tags)) THEN 4 ELSE 0)
    + (IF \E level \in {s_low, s_high} :
              /\ normalize_budget_level(call.budget_level) = level
              /\ Lower(call.attraction.cost_level) = level
       THEN 6 ELSE 0)

\* the claimed sum, added up in doubles in the order of the claim
ClaimedScore(matching) ==
    FlAdd(FlAdd(FlQuarters(ClaimedBonuses(matching)),
                FlRatingTerm(call.attraction.rating)),
          FlQuarters(Min(call.attraction.review_count_lakhs, 50) \div 5))

\* x is y up to 2^-48, which is above the rounding error of two additions below 32
FlNear(x, y) ==
    /\ FlGE(FlExactSum(x, Fl(0, 256)), y)
    /\ FlGE(FlExactSum(y, Fl(0, 256)), x)

\* C11, as the claim states it: one more interest that is a substring of
\* the tags, letter case aside, raises the score by exactly 2.0.
C11_Original ==
    ScoreReturned =>
        \A w \in {s_beach, s_Beach_padded} :
            Contains(Lower(w), Lower(call.attraction.tags)) =>
                FlSub(ScoreWith(Append(call.interests, w)), ret.v) = FlQuarters(8)

\* C11, amended: the score is the claimed sum, computed in doubles, an
\* interest counting when it is a substring of the tags once trimmed and
\* letter case aside; one more such interest raises the score by 2.0 up to
\* the rounding of the sum; and the review count adds at most 2.5.
C11_ScoreFormula ==
    ScoreReturned =>
        /\ ret.v = ClaimedScore(CountTrimmed(call.interests, call.attraction.tags))
        /\ \A w \in {s_beach, s_Beach_padded} :
              Contains(Strip(Lower(w)), Lower(call.attraction.tags)) =>
                  FlNear(FlExactSum(ScoreWith(Append(call.interests, w)), FlNeg(ret.v)),
                         FlQuarters(8))
        /\ FlGE(FlExactSum(FlQuarters(10), Fl(0, 256)),
                FlExactSum(ret.v, FlNeg(ScoreWithReviews(0))))

\* a call with a padded interest that counts, a budget bonus and a review
\* count above the cap, where one more interest adds 2.0 only up to rounding
C11_Witness ==
    /\ ScoreReturned
    /\ call.interests = <<s_Beach_padded>>
    /\ call.attraction.review_count_lakhs > 50
    /\ normalize_budget_level(call.budget_level) = Lower(call.attraction.cost_level)
    /\ call.budget_level = s_low
    /\ FlSub(ScoreWith(Append(call.interests, s_beach)), ret.v) # FlQuarters(8)

(***************************************************************************)
(* C12: the ranking of the retrieved candidates                            *)
(***************************************************************************)
\* what the retrieval index returned to retrieve_attractions in this run
RunFound == search_attractions(raw_results, Get(preferences.v, "destination", <<>>))

\* candidate a of the retrieved list with the score it is given
RunScored(a) ==
    [score |-> score_attraction(a, Get(preferences.v, "interests", <<>>),
                                Get(preferences.v, "trip_type", <<>>),
                                Get(preferences.v, "budget_level", s_medium))] @@ a

\* the retrieved list, each candidate with its score, in the index's order
RunScoredList == [i \in 1..Len(RunFound) |-> RunScored(RunFound[i])]

Occurrences(seq, x) == Cardinality({i \in 1..Len(seq) : seq[i] = x})

\* C12: when retrieve_attractions has returned, the candidates are the
\* retrieved ones in another order, each with its score, no score below a
\* later one, and candidates of equal score in the order the index
\* returned them.
C12_StableDescendingSort ==
    pc = "plan" =>
        LET scored == RunScoredList
        IN  /\ Len(attractions) = Len(scored)
            /\ \A i \in 1..Len(attractions) :
                  Occurrences(attractions, attractions[i])
                      = Occurrences(scored, attractions[i])
            /\ \A i, j \in 1..Len(attractions) :
                  i < j =>
                      /\ FlGE(attractions[i].score, attractions[j].score)
                      /\ attractions[i].score = attractions[j].score =>
                            \E a, b \in 1..Len(scored) :
                                /\ a < b
                                /\ scored[a] = attractions[i]
                                /\ scored[b] = attractions[j]

\* three retrieved candidates or more, two of them of equal score, and the
\* ranking differs from the order the index returned
C12_Witness ==
    /\ pc = "plan"
    /\ Len(attractions) >= 3
    /\ \E i, j \in 1..Len(attractions) :
          i < j /\ attractions[i].score = attractions[j].score
    /\ \E i \in 1..Len(attractions) : attractions[i] # RunScored(RunFound[i])

(***************************************************************************)
(* C13: the order of the stages                                            *)
(***************************************************************************)
\* the run is over: the bundle was returned or an exception left the run
RunEnded == pc \in {"done", "raised"}

\* the model calls and index searches made when the run is at a stage
CallsBefore(stage) ==
    CASE stage = "extract"  -> <<0, 0>>
      [] stage = "override" -> <<1, 0>>
      [] stage = "retrieve" -> <<1, 0>>
      [] stage = "plan"     -> <<1, 1>>
      [] stage = "cost"     -> <<2, 1>>
      [] stage = "summary"  -> <<2, 1>>
      [] stage = "done"     -> <<3, 1>>

\* C13: a run at a stage has made the model calls and the one search of
\* the stages before it and no more, retrieval sees the overridden
\* preferences, and every run that is over has made exactly three model
\* calls and one index search.
C13_StagesOnceInOrder ==
    /\ pc \in {"extract", "override", "retrieve", "plan", "cost", "summary", "done"} =>
          <<llm_calls, searches>> = CallsBefore(pc)
    /\ pc = "plan" /\ explicit_destination # <<>> =>
          Get(preferences.v, "destination", <<>>) = explicit_destination
    /\ RunEnded => llm_calls = 3 /\ searches = 1

(***************************************************************************)
(* C14: the day-count override                                             *)
(***************************************************************************)
\* the override can be coerced to a positive integer
PositiveOverride == int(explicit_days).ok /\ int(explicit_days).v >= 1

\* C14: after the override step the days of the preferences are the
\* override when it can be coerced to a positive integer, and are what
\* extraction gave otherwise: the same value, or none as before.
C14_InvalidOverrideIgnored ==
    pc = "retrieve" =>
        LET extracted == extract_preferences(answers.extract).v
        IN  IF PositiveOverride
            THEN Get(preferences.v, "days", PyNone) = PyInt(int(explicit_days).v)
            ELSE Get(preferences.v, "days", PyNone) = Get(extracted, "days", PyNone)

(***************************************************************************)
(* C15: the missing credential                                             *)
(***************************************************************************)
\* C15: without the credential the run never leaves the import: no stage
\* has run, the index is not built, no model call or search was made and
\* no bundle exists.
C15_MissingCredentialFatal ==
    ~api_key =>
        /\ pc \in {"import", "fatal"}
        /\ rag = "none"
        /\ PipelineIdle

\* the import has failed for want of the credential
C15_Witness == pc = "fatal" /\ ~api_key /\ rag = "none" /\ summary_info = PyNone

(***************************************************************************)
(* C16: the planner fallback in closed form                                *)
(***************************************************************************)
\* the planner's answer was not parseable and the fallback was built
FallbackBuilt == AfterPlan /\ Unparseable(answers.plan)

\* C16: with T the truncated list, n = max(1, days) and
\* c = max(1, floor(len(T)/n)), the fallback has exactly n days numbered
\* 1..n in order; day d has the title "Day d in <destination>" and holds
\* the elements of T at the positions (d-1)c+1 .. dc that exist, with empty
\* notes: at most c of them, exactly c when len(T) >= n, and none when the
\* day lies past the end of T.
C16_FallbackClosedForm ==
    FallbackBuilt =>
        LET T == RunTop
            n == Max(1, DaysOf(preferences.v).v)
            c == Max(1, Len(T) \div n)
            destination == Get(preferences.v, "destination", <<>>)
        IN  /\ itinerary = ChunkedItinerary(T, n, destination)
            /\ DOMAIN itinerary.v = {"days"}
            /\ Len(itinerary.v.days) = n
            /\ \A d \in 1..n :
                  LET entry == itinerary.v.days[d]
                  IN  /\ entry.day = d
                      /\ entry.title = <<"D","a","y"," ">> \o IntToStr(d)
                                           \o <<" ","i","n"," ">> \o destination
                      /\ Len(entry.attractions) <= c
                      /\ Len(T) >= n => Len(entry.attractions) = c
                      /\ (d - 1) * c >= Len(T) => entry.attractions = <<>>
                      /\ Len(entry.attractions) = Max(0, Min(d * c, Len(T)) - (d - 1) * c)
                      /\ \A i \in 1..Len(entry.attractions) :
                            /\ entry.attractions[i].name = T[(d - 1) * c + i].name
                            /\ entry.attractions[i].city = T[(d - 1) * c + i].city
                            /\ entry.attractions[i].notes = ""

\* a fallback for three days from two candidates: the third day is past
\* the end of the list
C16_Witness ==
    /\ FallbackBuilt
    /\ Len(RunTop) = 2
    /\ Max(1, DaysOf(preferences.v).v) = 3
    /\ Len(itinerary.v.days) = 3
    /\ itinerary.v.days[3].attractions = <<>>

(***************************************************************************)
(* C17: the plan and the cost agree on the day count                       *)
(***************************************************************************)
\* C17: once the cost is estimated in a run whose itinerary is the
\* fallback, both stages have used max(int(days), 1): the itinerary has
\* that many days and the total is the cost per day times the number of
\* its days.
C17_TotalMatchesFallbackDays ==
    pc \in {"summary", "done"} /\ Unparseable(answers.plan) =>
        /\ Len(itinerary.v.days) = Max(DaysOf(preferences.v).v, 1)
        /\ cost_info.v.estimated_total
              = cost_info.v.estimated_per_day * Len(itinerary.v.days)

\* a bundle with a fallback itinerary for preferences of zero or fewer days
C17_Witness ==
    /\ pc = "done"
    /\ Unparseable(answers.plan)
    /\ DaysOf(preferences.v).v <= 0
    /\ Len(itinerary.v.days) = 1
    /\ cost_info.v.estimated_total = cost_info.v.estimated_per_day

====
